---- MODULE Spec2Model ----
(***************************************************************************)
(* alert-chart (src/src/alert-chart.ts): the alarm window resolver of      *)
(* getAWSCloudWatchAlarmGraphOptions, the overlay series of                *)
(* getAlarmStateData and the axis scaling and output selection of          *)
(* generateGraph.                                                          *)
(*                                                                         *)
(* Dates are integers (milliseconds).  A JavaScript number is a record     *)
(* [nan, v, eps]: v counts tenths (so that the product with the 0.1 margin *)
(* is exact on integer samples), eps = 1 marks Number.MIN_VALUE, the least *)
(* positive double, which orders above 0 and is absorbed by the rounding   *)
(* of any sum.  An optional value is <<>> (undefined) or <<v>>.            *)
(***************************************************************************)
EXTENDS Integers, Sequences, FiniteSets, TLC

\* ------------------------------------------------------------------ bounds
MaxStates == 2         \* longest alarmStates list
MaxTime == 2           \* instants of the overlay inputs are 0 .. MaxTime
MaxLead == 1           \* a beginTime precedes its time by MaxLead
MaxPoints == 2         \* longest sample list of the axis scaler inputs
MaxValue == 2          \* sample values and thresholds are -MaxValue .. MaxValue
MaxHistory == 2        \* longest describeAlarmHistory response
MaxEvaluationPeriods == 8  \* EvaluationPeriods of the lookback inputs are 0 .. this

\* ------------------------------------------------------- optional values
Undefined == <<>>
Def(v) == <<v>>
IsDef(o) == o # <<>>
Val(o) == o[1]
\* a || b, for a an optional object (every Date is truthy)
OrElse(a, b) == IF IsDef(a) THEN a ELSE b

\* ------------------------------------------------------------ JS numbers
Scale == 10
MaxDouble == 1000000
FromInt(k) == [nan |-> FALSE, v |-> k * Scale, eps |-> 0]
NaN == [nan |-> TRUE, v |-> 0, eps |-> 0]
Number_MIN_VALUE == [nan |-> FALSE, v |-> 0, eps |-> 1]
Number_MAX_VALUE == FromInt(MaxDouble)
One == FromInt(1)
Zero == FromInt(0)

Gt(a, b) == /\ ~a.nan
            /\ ~b.nan
            /\ \/ a.v > b.v
               \/ a.v = b.v /\ a.eps > b.eps
Lt(a, b) == Gt(b, a)
Le(a, b) == ~a.nan /\ ~b.nan /\ ~Gt(a, b)
Ge(a, b) == Le(b, a)
\* a - b and a + b: NaN propagates, a MIN_VALUE operand is lost in rounding
Sub(a, b) == IF a.nan \/ b.nan THEN NaN ELSE [nan |-> FALSE, v |-> a.v - b.v, eps |-> 0]
Add(a, b) == IF a.nan \/ b.nan THEN NaN ELSE [nan |-> FALSE, v |-> a.v + b.v, eps |-> 0]
\* a * threadholdMargin, with threadholdMargin = 0.1 = 1 / Scale
TimesMargin(a) == IF a.nan THEN NaN ELSE [nan |-> FALSE, v |-> a.v \div Scale, eps |-> 0]
\* the truthiness of an optional number: undefined, NaN and 0 are falsy
Truthy(o) == IsDef(o) /\ ~Val(o).nan /\ (Val(o).v # 0 \/ Val(o).eps # 0)

\* ------------------------------------------------------------------ types
AlarmState == {"OK", "Alarm", "Insufficient"}
Comparisons == {"undefined", "lt", "gt", "gte", "lte", "eq"}
OutputFormats == {"undefined", "stream", "buffer", "dataUri"}

VARIABLES
    options,               \* the GenerateGraphOptions handed to generateGraph
    pc,                    \* "call": generateGraph not yet run, "returned": it returned
    alarmStateData,        \* the Notification overlay series
    alarmBeginStateData,   \* the Actual overlay series
    suggestedMax,
    suggestedMin,
    thresholdFill,         \* "false", "end" or "start"
    datasets,              \* configuration.data.datasets
    result                 \* the object generateGraph returns

graphVars == <<options, pc, alarmStateData, alarmBeginStateData,
               suggestedMax, suggestedMin, thresholdFill, datasets, result>>

\* one call of getAWSCloudWatchAlarmGraphOptions
VARIABLES
    awsPc,                 \* where the call stands
    region,                \* the argument: the provider region
    alarmName,             \* the argument: the alarm asked for
    graphTimespan,         \* the argument: optional seconds
    alarms,                \* the describeAlarms response
    endTime,               \* optional instant: moment() of line 218
    startTime,             \* optional instant: the let of line 220
    defaultStartTime,      \* the value line 220 gave startTime
    thresholdComparison,
    historyLen,            \* optional length of AlarmHistoryItems
    historyItems,          \* the history items mapped so far
    alarmStates,           \* optional list: the transitions mapped so far
    requests,              \* the provider requests issued, in order
    awsResult,             \* the optional options value returned
    error                  \* the parts of the message thrown, none when nothing is

awsVars == <<awsPc, region, alarmName, graphTimespan, alarms, endTime, startTime, defaultStartTime,
             thresholdComparison, historyLen, historyItems, alarmStates, requests,
             awsResult, error>>
vars == <<graphVars, awsVars>>

\* ------------------------------------------------------ getAlarmStateData
\* y of the seed and of the terminal point
FillY(lastState) == IF lastState = "Alarm" THEN One ELSE NaN

\* the condition under which a transition emits points
InWindow(windowStart, state) == ~IsDef(windowStart) \/ state.time >= Val(windowStart)

\* the seed point, pushed while the series is still empty
WithSeed(series, windowStart, lastState) ==
    IF Len(series) = 0
    THEN Append(series, [x |-> windowStart, y |-> FillY(lastState)])
    ELSE series

\* EmitAlarm pushing only a point anchored at the notification time
EmitAlarmOwnTimeOnly(series, state, anchor) ==
    IF state.newState = "Alarm" /\ anchor = state.time
    THEN Append(series, [x |-> Def(anchor), y |-> One])
    ELSE series

\* the points one in-window transition adds to a series anchored at `anchor`
EmitAlarm(series, state, anchor) ==
    IF state.newState = "Alarm"
    THEN Append(series, [x |-> Def(anchor), y |-> One])
    ELSE series

\* EmitOK without the point that closes the fill 1 ms before the drop
EmitOKNoClose(series, state, anchor, lastState) ==
    IF state.newState = "OK"
    THEN Append(series, [x |-> Def(anchor), y |-> NaN])
    ELSE series

\* EmitOK closing the fill on the transition's own oldState
EmitOKOldState(series, state, anchor, lastState) ==
    IF state.newState = "OK"
    THEN Append(IF state.oldState = "Alarm"
                THEN Append(series, [x |-> Def(anchor - 1), y |-> One])
                ELSE series,
                [x |-> Def(anchor), y |-> NaN])
    ELSE series

EmitOK(series, state, anchor, lastState) ==
    IF state.newState = "OK"
    THEN Append(IF lastState = "Alarm"
                THEN Append(series, [x |-> Def(anchor - 1), y |-> One])
                ELSE series,
                [x |-> Def(anchor), y |-> NaN])
    ELSE series

\* state.beginTime || state.time
BeginAnchor(state) == Val(OrElse(state.beginTime, Def(state.time)))

\* one iteration of the loop over options.alarmStates
AlarmStateStep(acc, state, windowStart) ==
    LET seeded == WithSeed(acc.alarmStateData, windowStart, acc.lastState)
        seededBegin == WithSeed(acc.alarmBeginStateData, windowStart, acc.lastState)
    IN  [lastTime |-> Def(state.time),
         lastState |-> state.newState,
         alarmStateData |->
            IF InWindow(windowStart, state)
            THEN EmitOK(EmitAlarm(seeded, state, state.time),
                        state, state.time, acc.lastState)
            ELSE acc.alarmStateData,
         alarmBeginStateData |->
            IF InWindow(windowStart, state)
            THEN EmitOK(EmitAlarm(seededBegin, state, BeginAnchor(state)),
                        state, BeginAnchor(state), acc.lastState)
            ELSE acc.alarmBeginStateData]

RECURSIVE AlarmStateLoop(_, _, _, _)
AlarmStateLoop(acc, states, i, windowStart) ==
    IF i > Len(states)
    THEN acc
    ELSE AlarmStateLoop(AlarmStateStep(acc, states[i], windowStart), states, i + 1, windowStart)

\* options.startTime || options.points[0]?.time
SeriesStartTime(opts) ==
    OrElse(opts.startTime,
           IF Len(opts.points) > 0 THEN Def(opts.points[1].time) ELSE Undefined)

\* WithTerminal leaving a series without seed empty
WithTerminalIfSeeded(series, opts, acc) ==
    IF Len(series) = 0
    THEN series
    ELSE Append(series, [x |-> OrElse(opts.endTime, acc.lastTime), y |-> FillY(acc.lastState)])

\* the terminal point
WithTerminal(series, opts, acc) ==
    Append(series, [x |-> OrElse(opts.endTime, acc.lastTime), y |-> FillY(acc.lastState)])

getAlarmStateData(opts) ==
    IF IsDef(opts.alarmStates)
    THEN LET windowStart == SeriesStartTime(opts)
             acc == AlarmStateLoop([lastTime |-> windowStart,
                                    lastState |-> "OK",
                                    alarmStateData |-> <<>>,
                                    alarmBeginStateData |-> <<>>],
                                   Val(opts.alarmStates), 1, windowStart)
         IN  [alarmStateData |-> WithTerminal(acc.alarmStateData, opts, acc),
              alarmBeginStateData |-> WithTerminal(acc.alarmBeginStateData, opts, acc)]
    ELSE [alarmStateData |-> <<>>, alarmBeginStateData |-> <<>>]

\* ------------------------------------------------- generateGraph: the axis
RECURSIVE PointMaxFrom(_, _, _)
PointMaxFrom(accum, points, i) ==
    IF i > Len(points)
    THEN accum
    ELSE PointMaxFrom(IF Gt(accum, points[i].value) THEN accum ELSE points[i].value,
                      points, i + 1)

RECURSIVE PointMinFrom(_, _, _)
PointMinFrom(accum, points, i) ==
    IF i > Len(points)
    THEN accum
    ELSE PointMinFrom(IF Lt(accum, points[i].value) THEN accum ELSE points[i].value,
                      points, i + 1)

PointMax(points) == PointMaxFrom(Number_MIN_VALUE, points, 1)
PointMin(points) == PointMinFrom(Number_MAX_VALUE, points, 1)

\* ThresholdConfigured as a test against undefined
ThresholdDefined(opts) == IsDef(opts.alarmThresholdValue)

\* whether the scaling block runs at all: if (options.alarmThresholdValue)
ThresholdConfigured(opts) == Truthy(opts.alarmThresholdValue)

IsGreater(opts) == opts.alarmThresholdComparison \in {"gt", "gte"}
IsLess(opts) == opts.alarmThresholdComparison \in {"lt", "lte"}

ThresholdFill(opts) ==
    IF ~ThresholdConfigured(opts) THEN "false"
    ELSE IF IsGreater(opts) THEN "end"
    ELSE IF IsLess(opts) THEN "start"
    ELSE "false"

SuggestedMax(opts) ==
    IF /\ ThresholdConfigured(opts)
       /\ IsGreater(opts)
       /\ Le(PointMax(opts.points), Val(opts.alarmThresholdValue))
    THEN Def(Add(Val(opts.alarmThresholdValue),
                 TimesMargin(Sub(Val(opts.alarmThresholdValue), PointMin(opts.points)))))
    ELSE Undefined

SuggestedMin(opts) ==
    IF /\ ThresholdConfigured(opts)
       /\ ~IsGreater(opts)
       /\ IsLess(opts)
       /\ Ge(PointMin(opts.points), Val(opts.alarmThresholdValue))
    THEN Def(Sub(Val(opts.alarmThresholdValue),
                 TimesMargin(Sub(PointMax(opts.points), Val(opts.alarmThresholdValue)))))
    ELSE Undefined

\* --------------------------------------------- generateGraph: the datasets
\* options.points.map((point) => point.value)
PointValues(points) == [i \in 1 .. Len(points) |-> points[i].value]

\* lines 408-411: the data of the dataset labelled 'Threshold'
ThresholdData(opts) ==
    IF IsDef(opts.alarmThresholdValue)
    THEN [i \in 1 .. Len(opts.points) |-> Val(opts.alarmThresholdValue)]
    ELSE <<>>

\* lines 391-437: the four datasets of the configuration; the first is labelled
\* options.pointsLabel, a string of the caller's
Datasets(opts, stateData, beginStateData) ==
    <<[label |-> "pointsLabel", yAxisID |-> "yDefault", fill |-> "undefined",
       data |-> PointValues(opts.points)],
      [label |-> "Threshold", yAxisID |-> "yDefault", fill |-> ThresholdFill(opts),
       data |-> ThresholdData(opts)],
      [label |-> "Alarm Notification", yAxisID |-> "yAlarm", fill |-> "start",
       data |-> stateData],
      [label |-> "Alarm Actual", yAxisID |-> "yAlarmActual", fill |-> "start",
       data |-> beginStateData]>>

\* ----------------------------------------------- generateGraph: the output
NoResult == [stream |-> Undefined, buffer |-> Undefined, dataUri |-> Undefined]

\* RenderResult handing out the stream beside the buffer
RenderResultBoth(opts) ==
    IF opts.outputFormat = "buffer"
    THEN [NoResult EXCEPT !.buffer = Def("png"), !.stream = Def("png")]
    ELSE IF opts.outputFormat = "dataUri"
    THEN [NoResult EXCEPT !.dataUri = Def("data:image/png;base64")]
    ELSE [NoResult EXCEPT !.stream = Def("png")]

RenderResult(opts) ==
    IF opts.outputFormat = "buffer"
    THEN [NoResult EXCEPT !.buffer = Def("png")]
    ELSE IF opts.outputFormat = "dataUri"
    THEN [NoResult EXCEPT !.dataUri = Def("data:image/png;base64")]
    ELSE [NoResult EXCEPT !.stream = Def("png")]

generateGraph ==
    /\ pc = "call"
    /\ pc' = "returned"
    /\ LET series == getAlarmStateData(options)
       IN  /\ alarmStateData' = series.alarmStateData
           /\ alarmBeginStateData' = series.alarmBeginStateData
           /\ datasets' = Datasets(options, series.alarmStateData, series.alarmBeginStateData)
    /\ suggestedMax' = SuggestedMax(options)
    /\ suggestedMin' = SuggestedMin(options)
    /\ thresholdFill' = ThresholdFill(options)
    /\ result' = RenderResult(options)
    /\ UNCHANGED options
    /\ UNCHANGED awsVars

\* ------------------------------------ getAWSCloudWatchAlarmGraphOptions
defaultPeriod == 300
idealDataPoints == 100
day == 86400
SampleLimit == 1440
MsPerSecond == 1000

stateValueMap(stateValue) ==
    CASE stateValue = "INSUFFICIENT_DATA" -> "Insufficient"
      [] stateValue = "OK" -> "OK"
      [] stateValue = "ALARM" -> "Alarm"
      [] OTHER -> "undefined"

\* DefaultTimespan comparing twice the evaluation span, not four times, with a day
DefaultTimespanTwice(metricAlarm) ==
    IF metricAlarm.Period # 0
    THEN IF /\ metricAlarm.EvaluationPeriods # 0
            /\ metricAlarm.Period * metricAlarm.EvaluationPeriods * 2 > day
         THEN metricAlarm.Period * metricAlarm.EvaluationPeriods * 2
         ELSE IF metricAlarm.Period * idealDataPoints < day
              THEN metricAlarm.Period * idealDataPoints
              ELSE day
    ELSE day

\* the lookback in seconds; a Period or EvaluationPeriods of 0 is an absent one
DefaultTimespan(metricAlarm) ==
    IF metricAlarm.Period # 0
    THEN IF /\ metricAlarm.EvaluationPeriods # 0
            /\ metricAlarm.Period * metricAlarm.EvaluationPeriods * 4 > day
         THEN metricAlarm.Period * metricAlarm.EvaluationPeriods * 2
         ELSE IF metricAlarm.Period * idealDataPoints < day
              THEN metricAlarm.Period * idealDataPoints
              ELSE day
    ELSE day

\* moment(end).subtract(seconds, 'seconds')
SubtractSeconds(end, seconds) == end - seconds * MsPerSecond

calculateAWSCloudWatchAlarmStartTime(end, metricAlarm) ==
    SubtractSeconds(end, DefaultTimespan(metricAlarm))

\* line 220: graphTimespan ? ... : ...  (undefined and 0 are falsy)
InitialStartTime(end, timespan, metricAlarm) ==
    IF IsDef(timespan) /\ Val(timespan) # 0
    THEN SubtractSeconds(end, Val(timespan))
    ELSE calculateAWSCloudWatchAlarmStartTime(end, metricAlarm)

ThresholdComparison(metricAlarm) ==
    CASE metricAlarm.ComparisonOperator = "GreaterThanThreshold" -> "gt"
      [] metricAlarm.ComparisonOperator = "GreaterThanOrEqualToThreshold" -> "gte"
      [] metricAlarm.ComparisonOperator = "LessThanThreshold" -> "lt"
      [] metricAlarm.ComparisonOperator = "LessThanOrEqualToThreshold" -> "lte"
      [] OTHER -> "undefined"

\* alarm.Period || defaultPeriod
PeriodOf(metricAlarm) == IF metricAlarm.Period # 0 THEN metricAlarm.Period ELSE defaultPeriod

\* data.oldState?.stateReasonData?.startDate and data.newState?...startDate, as
\* the instants moment() parses them to
OldStateStartDate(data) ==
    IF IsDef(data.oldState) THEN Val(data.oldState).startDate ELSE Undefined
StateStartDate(data) ==
    IF IsDef(data.newState) THEN Val(data.newState).startDate ELSE Undefined

\* stateValueMap[data.oldState?.stateValue]
OldStateValue(data) ==
    IF IsDef(data.oldState) THEN stateValueMap(Val(data.oldState).stateValue) ELSE "undefined"

\* samples < 1440, for samples = (end - onset) / period: a count of milliseconds
\* divided by a period in seconds; with period > 0 the quotient is under the
\* limit exactly when the dividend is under limit * period
SamplesUnderLimit(end, onset, period) == end - onset < SampleLimit * period

\* ExtendStartTime moving startTime to a later stateStartDate
ExtendStartTimeForward(start, end, data, period) ==
    IF /\ IsDef(OldStateStartDate(data))
       /\ OldStateValue(data) = "Alarm"
       /\ start > Val(OldStateStartDate(data))
    THEN IF SamplesUnderLimit(end, Val(OldStateStartDate(data)), period)
         THEN Val(OldStateStartDate(data))
         ELSE start
    ELSE IF IsDef(StateStartDate(data)) /\ start < Val(StateStartDate(data))
         THEN Val(StateStartDate(data))
         ELSE start

\* lines 264-277: startTime after one history item
ExtendStartTime(start, end, data, period) ==
    IF /\ IsDef(OldStateStartDate(data))
       /\ OldStateValue(data) = "Alarm"
       /\ start > Val(OldStateStartDate(data))
    THEN IF SamplesUnderLimit(end, Val(OldStateStartDate(data)), period)
         THEN Val(OldStateStartDate(data))
         ELSE start
    ELSE IF IsDef(StateStartDate(data)) /\ start > Val(StateStartDate(data))
         THEN Val(StateStartDate(data))
         ELSE start

\* lines 279-284 throw a TypeError on a record without oldState or newState
MapThrows(data) == ~IsDef(data.oldState) \/ ~IsDef(data.newState)

\* lines 279-284: the transition one history item maps to
MappedState(item, data, end) ==
    [time |-> Val(OrElse(item.Timestamp, Def(end))),
     beginTime |-> StateStartDate(data),
     oldState |-> stateValueMap(Val(data.oldState).stateValue),
     newState |-> stateValueMap(Val(data.newState).stateValue)]

\* JSON.parse(historyItem.HistoryData || '{}')
ParseHistoryData(item) ==
    IF IsDef(item.HistoryData)
    THEN Val(item.HistoryData)
    ELSE [oldState |-> Undefined, newState |-> Undefined]

\* Array.prototype.sort with sortHelper((x) => x.time): a stable insertion sort
RECURSIVE InsertByTime(_, _)
InsertByTime(sorted, e) ==
    IF Len(sorted) = 0 \/ sorted[Len(sorted)].time <= e.time
    THEN Append(sorted, e)
    ELSE Append(InsertByTime(SubSeq(sorted, 1, Len(sorted) - 1), e), sorted[Len(sorted)])

RECURSIVE SortByTimeFrom(_, _, _)
SortByTimeFrom(sorted, list, i) ==
    IF i > Len(list)
    THEN sorted
    ELSE SortByTimeFrom(InsertByTime(sorted, list[i]), list, i + 1)

SortByTime(list) == SortByTimeFrom(<<>>, list, 1)

\* lines 163-168: the points of a getMetricStatistics response
RECURSIVE MapDatapoints(_, _, _)
MapDatapoints(datapoints, i, end) ==
    IF i > Len(datapoints)
    THEN <<>>
    ELSE <<[time |-> Val(OrElse(datapoints[i].Timestamp, Def(end))),
            value |-> IF IsDef(datapoints[i].statistic)
                      THEN Val(datapoints[i].statistic)
                      ELSE NaN]>>
         \o MapDatapoints(datapoints, i + 1, end)

MetricPoints(response, end) ==
    IF IsDef(response.Datapoints)
    THEN SortByTime(MapDatapoints(Val(response.Datapoints), 1, end))
    ELSE <<>>

\* the messages thrown, as the parts of their template literals
NoError == <<>>
NotFoundError(name, where) == <<"Alarm ", name, " not found in ", where, ".">>
NotDefinedError(name) == <<"Alarm ", name, " MetricName, Namespace or Statistic is not defined.">>
TypeError == <<"TypeError">>

\* the arguments of the call
Regions == {"us-east-1"}
AlarmNames == {"cpu-high"}

\* the instant of the call: moment() of line 218
Nows == {20 * day * MsPerSecond}

\* the responses of describeAlarms: no alarm, or one alarm, complete or not
MetricAlarm(period, evaluationPeriods, metricName, namespace, statistic) ==
    [MetricName |-> metricName, Namespace |-> namespace, Statistic |-> statistic,
     Period |-> period, EvaluationPeriods |-> evaluationPeriods,
     ComparisonOperator |-> "GreaterThanThreshold", Threshold |-> Def(One)]

AlarmResponses ==
    {[MetricAlarms |-> Undefined], [MetricAlarms |-> Def(<<>>)]}
        \cup {[MetricAlarms |-> Def(<<MetricAlarm(p, e, TRUE, TRUE, TRUE)>>)] :
                 p \in {0, 60, 3600}, e \in {1, 30}}
        \cup {[MetricAlarms |-> Def(<<MetricAlarm(60, 1, m, n, s)>>)] :
                 m \in BOOLEAN, n \in BOOLEAN, s \in BOOLEAN}

GraphTimespans == {Undefined, Def(0), Def(60)}

\* the onsets a history record may carry, as instants before the call
OldStartDates(end) ==
    {Undefined, Def(end - 100 * MsPerSecond), Def(end - 11 * day * MsPerSecond)}
NewStartDates(end) == {Undefined, Def(end - 2 * day * MsPerSecond)}

StateValuePairs ==
    {<<"OK", "ALARM">>, <<"ALARM", "OK">>, <<"ALARM", "INSUFFICIENT_DATA">>,
     <<"INSUFFICIENT_DATA", "OK">>, <<"UNKNOWN", "OK">>}

\* the response is scanned by ascending timestamp
ItemTimestamp(end, i) == end - (MaxHistory + 1 - i) * MsPerSecond

\* the i-th item of a describeAlarmHistory response
HistoryItemsAt(end, i) ==
    {[Timestamp |-> Def(ItemTimestamp(end, i)), HistoryData |-> Undefined]}
        \cup {[Timestamp |-> Def(ItemTimestamp(end, i)),
               HistoryData |->
                  Def([oldState |-> Def([stateValue |-> p[1], startDate |-> o]),
                       newState |-> Def([stateValue |-> p[2], startDate |-> n])])] :
                 p \in StateValuePairs, o \in OldStartDates(end), n \in NewStartDates(end)}

\* the responses of getMetricStatistics
MetricResponses(end) ==
    {[Datapoints |-> Undefined],
     [Datapoints |-> Def(<<[Timestamp |-> Def(end - MsPerSecond), statistic |-> Def(One)],
                           [Timestamp |-> Def(end - 2 * MsPerSecond),
                            statistic |-> Undefined]>>)]}

\* !alarms.MetricAlarms?.length
NoAlarmFound ==
    IF IsDef(alarms.MetricAlarms) THEN Len(Val(alarms.MetricAlarms)) = 0 ELSE TRUE

TheAlarm == Val(alarms.MetricAlarms)[1]

\* AlarmIncomplete without the test of Statistic
AlarmIncompleteNoStatistic ==
    IF TheAlarm.MetricName THEN ~TheAlarm.Namespace ELSE TRUE

\* !alarm.MetricName || !alarm.Namespace || !alarm.Statistic
AlarmIncomplete ==
    IF TheAlarm.MetricName THEN (IF TheAlarm.Namespace THEN ~TheAlarm.Statistic ELSE TRUE) ELSE TRUE

\* MapFinished not waiting for the items of the response
MapFinishedAtOnce == TRUE

\* the map callback has run on every item of the response
MapFinished == IF IsDef(historyLen) THEN Len(historyItems) = Val(historyLen) ELSE TRUE

\* line 207: the describeAlarms request is issued
DescribeAlarms ==
    /\ awsPc = "start"
    /\ awsPc' = "awaitAlarms"
    /\ requests' = Append(requests, [op |-> "describeAlarms", AlarmNames |-> <<alarmName>>])
    /\ UNCHANGED <<region, alarmName, graphTimespan, alarms, endTime, startTime, defaultStartTime,
                   thresholdComparison, historyLen, historyItems, alarmStates,
                   awsResult, error>>
    /\ UNCHANGED graphVars

\* lines 210-216: the response names no usable alarm
AlarmRejected ==
    /\ awsPc = "awaitAlarms"
    /\ IF NoAlarmFound
       THEN error' = NotFoundError(alarmName, region)
       ELSE /\ AlarmIncomplete
            /\ error' = NotDefinedError(alarmName)
    /\ awsPc' = "failed"
    /\ UNCHANGED <<region, alarmName, graphTimespan, alarms, endTime, startTime, defaultStartTime,
                   thresholdComparison, historyLen, historyItems, alarmStates,
                   requests, awsResult>>
    /\ UNCHANGED graphVars

\* lines 218-248: the window's default and the describeAlarmHistory request
DescribeAlarmHistory ==
    /\ awsPc = "awaitAlarms"
    /\ ~NoAlarmFound
    /\ ~AlarmIncomplete
    /\ \E now \in Nows :
          /\ endTime' = Def(now)
          /\ startTime' = Def(InitialStartTime(now, graphTimespan, TheAlarm))
          /\ defaultStartTime' = Def(InitialStartTime(now, graphTimespan, TheAlarm))
          /\ requests' = Append(requests,
                                [op |-> "describeAlarmHistory",
                                 StartDate |-> InitialStartTime(now, graphTimespan, TheAlarm)])
    /\ thresholdComparison' = ThresholdComparison(TheAlarm)
    /\ awsPc' = "awaitHistory"
    /\ UNCHANGED <<region, alarmName, graphTimespan, alarms, historyLen, historyItems, alarmStates,
                   awsResult, error>>
    /\ UNCHANGED graphVars

\* line 254: the response arrives, with or without AlarmHistoryItems
HistoryReturned ==
    /\ awsPc = "awaitHistory"
    /\ \E len \in {Undefined} \cup {Def(n) : n \in 0 .. MaxHistory} :
          /\ historyLen' = len
          /\ alarmStates' = IF IsDef(len) THEN Def(<<>>) ELSE Undefined
    /\ awsPc' = "map"
    /\ UNCHANGED <<region, alarmName, graphTimespan, alarms, endTime, startTime, defaultStartTime,
                   thresholdComparison, historyItems, requests, awsResult, error>>
    /\ UNCHANGED graphVars

\* lines 254-284: the map callback on the next history item
MapHistoryItem ==
    /\ awsPc = "map"
    /\ ~MapFinished
    /\ \E item \in HistoryItemsAt(Val(endTime), Len(historyItems) + 1) :
          LET data == ParseHistoryData(item)
          IN  /\ historyItems' = Append(historyItems, item)
              /\ startTime' = Def(ExtendStartTime(Val(startTime), Val(endTime), data,
                                                  PeriodOf(TheAlarm)))
              /\ IF MapThrows(data)
                 THEN /\ awsPc' = "failed"
                      /\ error' = TypeError
                      /\ UNCHANGED alarmStates
                 ELSE /\ alarmStates' =
                            Def(Append(Val(alarmStates), MappedState(item, data, Val(endTime))))
                      /\ UNCHANGED <<awsPc, error>>
    /\ UNCHANGED <<region, alarmName, graphTimespan, alarms, endTime, defaultStartTime, thresholdComparison,
                   historyLen, requests, awsResult>>
    /\ UNCHANGED graphVars

\* lines 285-298: the sort, then the getMetricStatistics request
GetMetricStatistics ==
    /\ awsPc = "map"
    /\ MapFinished
    /\ alarmStates' = IF IsDef(alarmStates) THEN Def(SortByTime(Val(alarmStates))) ELSE Undefined
    /\ requests' = Append(requests,
                          [op |-> "getMetricStatistics",
                           StartTime |-> Val(startTime),
                           EndTime |-> Val(endTime),
                           Period |-> PeriodOf(TheAlarm)])
    /\ awsPc' = "awaitMetrics"
    /\ UNCHANGED <<region, alarmName, graphTimespan, alarms, endTime, startTime, defaultStartTime,
                   thresholdComparison, historyLen, historyItems, awsResult, error>>
    /\ UNCHANGED graphVars

\* lines 158-169 and 300-305: the options returned
ReturnOptions ==
    /\ awsPc = "awaitMetrics"
    /\ \E response \in MetricResponses(Val(endTime)) :
          awsResult' = Def([alarmStates |-> alarmStates,
                            alarmThresholdValue |-> TheAlarm.Threshold,
                            alarmThresholdComparison |-> thresholdComparison,
                            startTime |-> startTime,
                            endTime |-> endTime,
                            points |-> MetricPoints(response, Val(endTime)),
                            outputFormat |-> "undefined"])
    /\ awsPc' = "done"
    /\ UNCHANGED <<region, alarmName, graphTimespan, alarms, endTime, startTime, defaultStartTime,
                   thresholdComparison, historyLen, historyItems, alarmStates,
                   requests, error>>
    /\ UNCHANGED graphVars

\* lines 178-193: one call of calculateAWSCloudWatchAlarmStartTime
CalculateStartTime ==
    /\ awsPc = "calculate"
    /\ startTime' = Def(calculateAWSCloudWatchAlarmStartTime(Val(endTime), TheAlarm))
    /\ awsPc' = "calculated"
    /\ UNCHANGED <<region, alarmName, graphTimespan, alarms, endTime, defaultStartTime,
                   thresholdComparison, historyLen, historyItems, alarmStates,
                   requests, awsResult, error>>
    /\ UNCHANGED graphVars

\* the caller hands the options returned to generateGraph:
\* generateGraph({ outputFormat: 'buffer', ...options })
HandOverOptions ==
    /\ awsPc = "done"
    /\ pc = "idle"
    /\ options' = [Val(awsResult) EXCEPT !.outputFormat = "buffer"]
    /\ pc' = "call"
    /\ UNCHANGED <<alarmStateData, alarmBeginStateData, suggestedMax, suggestedMin,
                   thresholdFill, datasets, result>>
    /\ UNCHANGED awsVars

\* ------------------------------------------------------------- the inputs
Times == 0 .. MaxTime

\* the instants a transition notified at `time` may carry as beginTime
BeginTimes(time) == {Undefined, Def(time - MaxLead)}

Transitions(oldState) ==
    {[time |-> t, beginTime |-> b, oldState |-> oldState, newState |-> n] :
        t \in Times, b \in UNION {BeginTimes(t) : t \in Times}, n \in AlarmState}

ValidTransition(s) == s.beginTime \in BeginTimes(s.time)

Ascending(states) ==
    \A i \in 1 .. Len(states) - 1 : states[i].time <= states[i + 1].time

\* the time-ascending lists of at most MaxStates transitions; the oldState of a
\* list's transitions, which getAlarmStateData never reads, is one value per list
TransitionLists ==
    UNION {{l \in [1 .. n -> {s \in Transitions(old) : ValidTransition(s)}] : Ascending(l)} :
              n \in 0 .. MaxStates, old \in AlarmState}

\* the samples of the overlay inputs: none, or one at every instant; the samples
\* are read only when options.startTime is undefined
TimelinePoints(windowStart) ==
    {[i \in 1 .. MaxTime + 1 |-> [time |-> i - 1, value |-> One]]}
        \cup (IF IsDef(windowStart) THEN {} ELSE {<<>>})

OptionalTimes == {Undefined} \cup {Def(t) : t \in Times}

\* no call of getAWSCloudWatchAlarmGraphOptions is under way
InitAwsIdle ==
    /\ awsPc = "idle"
    /\ region = "none"
    /\ alarmName = "none"
    /\ graphTimespan = Undefined
    /\ alarms = [MetricAlarms |-> Undefined]
    /\ endTime = Undefined
    /\ startTime = Undefined
    /\ defaultStartTime = Undefined
    /\ thresholdComparison = "undefined"
    /\ historyLen = Undefined
    /\ historyItems = <<>>
    /\ alarmStates = Undefined
    /\ requests = <<>>
    /\ awsResult = Undefined
    /\ error = NoError

InitOutputs ==
    /\ InitAwsIdle
    /\ pc = "call"
    /\ alarmStateData = <<>>
    /\ alarmBeginStateData = <<>>
    /\ suggestedMax = Undefined
    /\ suggestedMin = Undefined
    /\ thresholdFill = "false"
    /\ datasets = <<>>
    /\ result = NoResult

InitTimeline ==
    /\ \E states \in {Undefined} \cup {Def(l) : l \in TransitionLists},
          windowStart \in OptionalTimes, windowEnd \in OptionalTimes :
          \E points \in TimelinePoints(windowStart) :
              /\ IsDef(windowStart) /\ IsDef(windowEnd) => Val(windowStart) <= Val(windowEnd)
              /\ options = [alarmStates |-> states,
                            alarmThresholdValue |-> Undefined,
                            alarmThresholdComparison |-> "undefined",
                            startTime |-> windowStart,
                            endTime |-> windowEnd,
                            points |-> points,
                            outputFormat |-> "undefined"]
    /\ InitOutputs

SampleValues == {NaN} \cup {FromInt(k) : k \in -MaxValue .. MaxValue}
Thresholds == {Undefined, Def(NaN)} \cup {Def(FromInt(k)) : k \in -MaxValue .. MaxValue}

SampleLists ==
    UNION {{[i \in 1 .. n |-> [time |-> i - 1, value |-> f[i]]] : f \in [1 .. n -> SampleValues]} :
              n \in 0 .. MaxPoints}

InitScaler ==
    /\ \E points \in SampleLists, threshold \in Thresholds,
          comparison \in Comparisons, outputFormat \in OutputFormats :
          options = [alarmStates |-> Undefined,
                     alarmThresholdValue |-> threshold,
                     alarmThresholdComparison |-> comparison,
                     startTime |-> Undefined,
                     endTime |-> Undefined,
                     points |-> points,
                     outputFormat |-> outputFormat]
    /\ InitOutputs

InitAlarm ==
    /\ awsPc = "start"
    /\ region \in Regions
    /\ alarmName \in AlarmNames
    /\ graphTimespan \in GraphTimespans
    /\ alarms \in AlarmResponses
    /\ endTime = Undefined
    /\ startTime = Undefined
    /\ defaultStartTime = Undefined
    /\ thresholdComparison = "undefined"
    /\ historyLen = Undefined
    /\ historyItems = <<>>
    /\ alarmStates = Undefined
    /\ requests = <<>>
    /\ awsResult = Undefined
    /\ error = NoError
    /\ pc = "idle"
    /\ options = [alarmStates |-> Undefined,
                  alarmThresholdValue |-> Undefined,
                  alarmThresholdComparison |-> "undefined",
                  startTime |-> Undefined,
                  endTime |-> Undefined,
                  points |-> <<>>,
                  outputFormat |-> "undefined"]
    /\ alarmStateData = <<>>
    /\ alarmBeginStateData = <<>>
    /\ suggestedMax = Undefined
    /\ suggestedMin = Undefined
    /\ thresholdFill = "false"
    /\ datasets = <<>>
    /\ result = NoResult

\* the alarms calculateAWSCloudWatchAlarmStartTime is called on: Period absent
\* (0) or on either side of a hundredth of a day and of a quarter of a day,
\* EvaluationPeriods absent (0) or up to MaxEvaluationPeriods
LookbackPeriods == {0, 1, 60, 300, 863, 864, 865, 3600, 21600, 21601, 86400}
LookbackEvaluationPeriods == 0 .. MaxEvaluationPeriods

InitLookback ==
    /\ awsPc = "calculate"
    /\ region \in Regions
    /\ alarmName \in AlarmNames
    /\ graphTimespan = Undefined
    /\ \E p \in LookbackPeriods, e \in LookbackEvaluationPeriods :
          alarms = [MetricAlarms |-> Def(<<MetricAlarm(p, e, TRUE, TRUE, TRUE)>>)]
    /\ endTime \in {Def(now) : now \in Nows}
    /\ startTime = Undefined
    /\ defaultStartTime = Undefined
    /\ thresholdComparison = "undefined"
    /\ historyLen = Undefined
    /\ historyItems = <<>>
    /\ alarmStates = Undefined
    /\ requests = <<>>
    /\ awsResult = Undefined
    /\ error = NoError
    /\ pc = "idle"
    /\ options = [alarmStates |-> Undefined,
                  alarmThresholdValue |-> Undefined,
                  alarmThresholdComparison |-> "undefined",
                  startTime |-> Undefined,
                  endTime |-> Undefined,
                  points |-> <<>>,
                  outputFormat |-> "undefined"]
    /\ alarmStateData = <<>>
    /\ alarmBeginStateData = <<>>
    /\ suggestedMax = Undefined
    /\ suggestedMin = Undefined
    /\ thresholdFill = "false"
    /\ datasets = <<>>
    /\ result = NoResult

\* the calls whose options are handed on to generateGraph: an hourly alarm, or
\* none, with the default lookback or one of a minute
EndToEndResponses ==
    {[MetricAlarms |-> Def(<<>>)],
     [MetricAlarms |-> Def(<<MetricAlarm(3600, 1, TRUE, TRUE, TRUE)>>)]}

InitEndToEnd ==
    /\ InitAlarm
    /\ alarms \in EndToEndResponses
    /\ graphTimespan \in {Undefined, Def(60)}

NextGraph == generateGraph
NextLookback == CalculateStartTime

NextAlarm ==
    \/ DescribeAlarms
    \/ AlarmRejected
    \/ DescribeAlarmHistory
    \/ HistoryReturned
    \/ MapHistoryItem
    \/ GetMetricStatistics
    \/ ReturnOptions

NextEndToEnd ==
    \/ DescribeAlarms
    \/ AlarmRejected
    \/ DescribeAlarmHistory
    \/ HistoryReturned
    \/ MapHistoryItem
    \/ GetMetricStatistics
    \/ ReturnOptions
    \/ HandOverOptions
    \/ generateGraph

SpecTimeline == InitTimeline /\ [][NextGraph]_vars
SpecScaler == InitScaler /\ [][NextGraph]_vars
SpecAlarm == InitAlarm /\ [][NextAlarm]_vars
SpecLookback == InitLookback /\ [][NextLookback]_vars
SpecEndToEnd == InitEndToEnd /\ [][NextEndToEnd]_vars

\* ------------------------------------------------------------------ claims
Returned == pc = "returned"
HasStates == IsDef(options.alarmStates)
States == Val(options.alarmStates)
HasWindow == IsDef(options.startTime) /\ IsDef(options.endTime)
WindowStart == Val(options.startTime)
WindowEnd == Val(options.endTime)
Point(t, y) == [x |-> Def(t), y |-> y]

C1_Case ==
    /\ Returned /\ HasStates /\ HasWindow
    /\ Len(States) = 2
    /\ States[1].newState = "Alarm"
    /\ States[2].newState = "OK"
    /\ WindowStart <= States[1].time
    /\ States[1].time < States[2].time
    /\ States[2].time <= WindowEnd

\* C1: one transition to Alarm at a, then one to OK at b, windowStart <= a < b
\* <= windowEnd: the Notification series is exactly
\* [(windowStart, gap), (a, 1), (b - 1, 1), (b, gap), (windowEnd, gap)].
C1_AlarmThenOK ==
    C1_Case =>
        alarmStateData = <<Point(WindowStart, NaN),
                           Point(States[1].time, One),
                           Point(States[2].time - 1, One),
                           Point(States[2].time, NaN),
                           Point(WindowEnd, NaN)>>

C1_Witness == C1_Case /\ Len(alarmStateData) = 5

SeedAndTerminal(series) ==
    /\ Len(series) >= 2
    /\ series[1].x = options.startTime
    /\ series[Len(series)].x = options.endTime

\* C2: for every transition list, of any length, each overlay series has at
\* least 2 points, a seed at windowStart and a terminal at windowEnd.
C2_SeedAndTerminal ==
    Returned /\ HasStates /\ HasWindow =>
        SeedAndTerminal(alarmStateData) /\ SeedAndTerminal(alarmBeginStateData)

NonDecreasingX(series) ==
    \A i \in 1 .. Len(series) - 1 : Val(series[i].x) <= Val(series[i + 1].x)

\* C3: for a time-ascending transition list, with any beginTime values, and a
\* window, the x values of each overlay series are non-decreasing from the seed
\* to the terminal point.
C3_NonDecreasingX ==
    Returned /\ HasStates /\ HasWindow /\ Ascending(States) =>
        NonDecreasingX(alarmStateData) /\ NonDecreasingX(alarmBeginStateData)

NoAlarm == \A i \in 1 .. Len(States) : States[i].newState # "Alarm"
AllGap(series) == \A i \in 1 .. Len(series) : series[i].y = NaN

\* C5: if no transition has newState Alarm, every y of both overlay series is
\* the gap sentinel, whatever the oldState values, times and window.
C5_NoAlarmAllGap ==
    Returned /\ HasStates /\ NoAlarm => AllGap(alarmStateData) /\ AllGap(alarmBeginStateData)

C5_Witness ==
    /\ Returned /\ HasStates /\ NoAlarm
    /\ Len(States) = MaxStates
    /\ States[1].oldState = "Alarm"
    /\ States[1].newState = "OK"
    /\ Len(alarmStateData) >= 3

\* C6: startTime after each history item is at most its value before the item,
\* so the startTime returned, and used for the metric fetch, is never later
\* than the default computed before the history was read.
C6_StartTimeNeverLater ==
    /\ [][IF IsDef(startTime)
          THEN IF IsDef(startTime') THEN Val(startTime') <= Val(startTime) ELSE FALSE
          ELSE TRUE]_vars
    /\ [](IF awsPc = "done"
          THEN /\ Val(Val(awsResult).startTime) <= Val(defaultStartTime)
               /\ requests[Len(requests)].op = "getMetricStatistics"
               /\ requests[Len(requests)].StartTime = Val(Val(awsResult).startTime)
          ELSE TRUE)

C6_Witness ==
    /\ awsPc = "done"
    /\ Len(historyItems) = MaxHistory
    /\ Val(Val(awsResult).startTime) < Val(defaultStartTime)

\* the sample count an onset implies: the seconds from the onset to endTime,
\* divided by the period
ImpliedSamples(onset) == ((Val(endTime) - onset) \div MsPerSecond) \div PeriodOf(TheAlarm)

NoEarlierOnset(onset) ==
    \A j \in 1 .. Len(historyItems) :
        LET data == ParseHistoryData(historyItems[j])
        IN  /\ IF IsDef(OldStateStartDate(data))
               THEN Val(OldStateStartDate(data)) >= onset
               ELSE TRUE
            /\ IF IsDef(StateStartDate(data))
               THEN Val(StateStartDate(data)) >= onset
               ELSE TRUE

PriorAlarmOnsetAt(i) ==
    LET data == ParseHistoryData(historyItems[i])
    IN  IF IsDef(OldStateStartDate(data))
        THEN /\ OldStateValue(data) = "Alarm"
             /\ Val(OldStateStartDate(data)) < Val(defaultStartTime)
             /\ ImpliedSamples(Val(OldStateStartDate(data))) < SampleLimit
             /\ NoEarlierOnset(Val(OldStateStartDate(data)))
        ELSE FALSE

\* C7: a history item whose prior state is Alarm, with an onset before the
\* default startTime and an implied sample count (the duration from the onset
\* to endTime divided by the period) under 1440, no item having an earlier
\* onset: the resolved startTime is that onset.
C7_PriorAlarmOnsetResolved ==
    awsPc = "done" =>
        \A i \in 1 .. Len(historyItems) :
            PriorAlarmOnsetAt(i) =>
                Val(awsResult).startTime = OldStateStartDate(ParseHistoryData(historyItems[i]))

Threshold == Val(options.alarmThresholdValue)
AllBelowThreshold ==
    \A i \in 1 .. Len(options.points) : Lt(options.points[i].value, Threshold)

C8_Case ==
    /\ Returned
    /\ IsDef(options.alarmThresholdValue)
    /\ Gt(Threshold, Zero)
    /\ options.alarmThresholdComparison = "gt"
    /\ AllBelowThreshold

\* C8: positive threshold t, comparison gt, every sample strictly below t (the
\* empty list included): suggestedMax is defined and above t, suggestedMin is
\* undefined.
C8_MaxAboveThreshold ==
    C8_Case =>
        /\ IsDef(suggestedMax)
        /\ Gt(Val(suggestedMax), Threshold)
        /\ ~IsDef(suggestedMin)

\* C9: suggestedMin or suggestedMax is defined, or the fill is on, only if the
\* threshold is non-zero and the comparison is one of gt, gte, lt, lte.
C9_OnlyWithThresholdAndDirection ==
    Returned /\ (IsDef(suggestedMin) \/ IsDef(suggestedMax) \/ thresholdFill # "false") =>
        /\ IsDef(options.alarmThresholdValue)
        /\ Threshold # Zero
        /\ options.alarmThresholdComparison \in {"gt", "gte", "lt", "lte"}

C9_Witness ==
    /\ Returned
    /\ options.alarmThresholdValue = Def(Zero)
    /\ options.alarmThresholdComparison = "gt"
    /\ Len(options.points) > 0
    /\ \A i \in 1 .. Len(options.points) : Lt(options.points[i].value, Zero)
    /\ thresholdFill = "false"

DefinedFields ==
    {f \in {"stream", "buffer", "dataUri"} : IsDef(result[f])}

\* C10: a returned result has exactly one of stream, buffer, dataUri defined:
\* buffer for 'buffer', dataUri for 'dataUri', stream for 'stream' or unset.
C10_ExactlyOneOutput ==
    Returned =>
        DefinedFields = {IF options.outputFormat \in {"buffer", "dataUri"}
                         THEN options.outputFormat
                         ELSE "stream"}

C10_Witness ==
    Returned /\ options.outputFormat = "buffer" /\ DefinedFields = {"buffer"}

\* the request kinds issued so far
RequestedOps == {requests[i].op : i \in 1 .. Len(requests)}
Names(message, name) == \E i \in 1 .. Len(message) : message[i] = name
LacksMetadata == ~(TheAlarm.MetricName /\ TheAlarm.Namespace /\ TheAlarm.Statistic)

\* C11: when describeAlarms returns no alarm, or an alarm without MetricName,
\* Namespace or Statistic, the call fails with an error naming the alarm (and
\* the region too when no alarm was found), returns no options, and requests
\* neither describeAlarmHistory nor getMetricStatistics, then or later.
C11_RejectedAlarmFails ==
    /\ [][IF awsPc = "awaitAlarms"
          THEN IF NoAlarmFound
               THEN /\ awsPc' = "failed"
                    /\ Names(error', alarmName) /\ Names(error', region)
                    /\ awsResult' = Undefined
                    /\ requests' = requests
               ELSE IF LacksMetadata
               THEN /\ awsPc' = "failed"
                    /\ Names(error', alarmName)
                    /\ awsResult' = Undefined
                    /\ requests' = requests
               ELSE TRUE
          ELSE TRUE]_vars
    /\ [](IF error \in {NotFoundError(alarmName, region), NotDefinedError(alarmName)}
          THEN /\ awsPc = "failed"
               /\ awsResult = Undefined
               /\ RequestedOps = {"describeAlarms"}
          ELSE TRUE)

C11_Witness ==
    /\ awsPc = "failed"
    /\ ~NoAlarmFound
    /\ ~TheAlarm.Statistic
    /\ error = NotDefinedError(alarmName)
    /\ requests = <<[op |-> "describeAlarms", AlarmNames |-> <<alarmName>>]>>

KnownStateValues == {"OK", "ALARM", "INSUFFICIENT_DATA"}
UnknownStateValue(side) ==
    IF IsDef(side) THEN Val(side).stateValue \notin KnownStateValues ELSE FALSE
HasUnknownState(item) ==
    \/ UnknownStateValue(ParseHistoryData(item).oldState)
    \/ UnknownStateValue(ParseHistoryData(item).newState)
NoStateMissing ==
    IF IsDef(alarmStates)
    THEN \A i \in 1 .. Len(Val(alarmStates)) :
            /\ Val(alarmStates)[i].oldState \in AlarmState
            /\ Val(alarmStates)[i].newState \in AlarmState
    ELSE TRUE

\* C12: once a history record with an oldState or newState stateValue outside
\* OK, ALARM, INSUFFICIENT_DATA has been normalized, the call has failed with
\* an error: no transition with a missing state exists and no options value is
\* returned.
C12_UnknownStateFails ==
    (\E i \in 1 .. Len(historyItems) : HasUnknownState(historyItems[i])) =>
        /\ awsPc = "failed"
        /\ error # NoError
        /\ NoStateMissing
        /\ awsResult = Undefined

\* C13: no history item moves startTime back to an onset whose implied sample
\* count (the duration from the onset to endTime divided by the period) is 1440
\* or more, whether the onset is that of the prior Alarm state or the
\* transition's own beginTime.
C13_NoExtensionPastLimit ==
    [][IF IsDef(startTime)
       THEN IF IsDef(startTime')
            THEN IF Val(startTime') < Val(startTime)
                 THEN ImpliedSamples(Val(startTime')) < SampleLimit
                 ELSE TRUE
            ELSE TRUE
       ELSE TRUE]_vars

LookbackPeriod == TheAlarm.Period
LookbackCount == TheAlarm.EvaluationPeriods
Lookback == (Val(endTime) - Val(startTime)) \div MsPerSecond
C14_Case ==
    /\ awsPc = "calculated"
    /\ LookbackPeriod = 0 \/ (LookbackPeriod > 0 /\ LookbackCount > 0)

C15_TimespanVerbatim ==
    IsDef(graphTimespan) =>
        \A i \in 1 .. Len(requests) :
            requests[i].op = "describeAlarmHistory" =>
                requests[i].StartDate = Val(endTime) - Val(graphTimespan) * MsPerSecond

IsNumber(point) == point.value # NaN
WithoutNaN(points) == SelectSeq(points, IsNumber)

\* C16: NaN samples are ignored by the axis scaling: suggestedMin and
\* suggestedMax are those the same options give once every NaN-valued sample
\* is removed from the sample list, wherever the NaN values sit.
C16_NaNIgnored ==
    Returned =>
        /\ suggestedMax = SuggestedMax([options EXCEPT !.points = WithoutNaN(options.points)])
        /\ suggestedMin = SuggestedMin([options EXCEPT !.points = WithoutNaN(options.points)])

SampleValuesOf(points) == {points[i].value : i \in 1 .. Len(points)}
TrueMax(points) ==
    CHOOSE m \in SampleValuesOf(points) : \A w \in SampleValuesOf(points) : Ge(m, w)
TrueMin(points) ==
    CHOOSE m \in SampleValuesOf(points) : \A w \in SampleValuesOf(points) : Le(m, w)

C17_Case ==
    /\ Returned
    /\ IsDef(options.alarmThresholdValue)
    /\ Threshold # NaN
    /\ Threshold # Zero
    /\ Len(options.points) > 0
    /\ \A i \in 1 .. Len(options.points) : options.points[i].value # NaN

\* C17: non-zero threshold t and a non-empty list of numeric samples of any
\* sign: for gt and gte, suggestedMax is defined exactly when the greatest
\* sample is at most t, and is then t + 0.1 x (t - least sample); for lt and
\* lte, suggestedMin is defined exactly when the least sample is at least t,
\* and is then t - 0.1 x (greatest sample - t).
C17_MarginFromTrueExtremes ==
    C17_Case =>
        /\ options.alarmThresholdComparison \in {"gt", "gte"} =>
              suggestedMax =
                 IF Le(TrueMax(options.points), Threshold)
                 THEN Def(Add(Threshold, TimesMargin(Sub(Threshold, TrueMin(options.points)))))
                 ELSE Undefined
        /\ options.alarmThresholdComparison \in {"lt", "lte"} =>
              suggestedMin =
                 IF Ge(TrueMin(options.points), Threshold)
                 THEN Def(Sub(Threshold, TimesMargin(Sub(TrueMax(options.points), Threshold))))
                 ELSE Undefined

DatasetLabels == {datasets[i].label : i \in 1 .. Len(datasets)}

\* C18: the dataset list of the configuration holds a dataset labelled
\* 'Threshold' only when options.alarmThresholdValue is present; with the
\* threshold absent there is no such dataset at all.
C18_NoThresholdDataset ==
    Returned /\ "Threshold" \in DatasetLabels => IsDef(options.alarmThresholdValue)

FirstSampleTime == options.points[1].time
LastSampleTime == options.points[Len(options.points)].time
SeedAtFirstSample(series) == Len(series) >= 1 /\ series[1].x = Def(FirstSampleTime)
TerminalAtLastSample(series) ==
    Len(series) >= 1 /\ series[Len(series)].x = Def(LastSampleTime)

\* C19: for a transition list and a non-empty sample list, each series starts
\* at the first sample's time when options.startTime is undefined, and ends at
\* the last sample's time when options.endTime is undefined.
C19_SampleTimeFallback ==
    Returned /\ HasStates /\ Len(options.points) > 0 =>
        /\ ~IsDef(options.startTime) =>
              SeedAtFirstSample(alarmStateData) /\ SeedAtFirstSample(alarmBeginStateData)
        /\ ~IsDef(options.endTime) =>
              /\ TerminalAtLastSample(alarmStateData)
              /\ TerminalAtLastSample(alarmBeginStateData)

NotificationAnchor(s) == s.time
ActualAnchor(s) == IF IsDef(s.beginTime) THEN Val(s.beginTime) ELSE s.time

\* the points between the seed and the terminal are at the anchor, or one
\* instant before it, of a transition anchored inside the window
EmittedInWindow(series, Anchor(_)) ==
    \A i \in 2 .. Len(series) - 1 :
        \E j \in 1 .. Len(States) :
            /\ Anchor(States[j]) >= WindowStart
            /\ Val(series[i].x) \in {Anchor(States[j]), Anchor(States[j]) - 1}

\* C20: in each series only a transition whose anchor (time for the
\* Notification series; beginTime when present, else time, for the Actual
\* series) is at or after windowStart emits points, and no point of the Actual
\* series has x earlier than windowStart.
C20_AnchoredInWindow ==
    Returned /\ HasStates /\ IsDef(options.startTime) =>
        /\ EmittedInWindow(alarmStateData, NotificationAnchor)
        /\ EmittedInWindow(alarmBeginStateData, ActualAnchor)
        /\ \A i \in 1 .. Len(alarmBeginStateData) :
              Val(alarmBeginStateData[i].x) >= WindowStart

\* a gap point right after a filled point is one instant after it
ClosedByStep(series) ==
    \A i \in 2 .. Len(series) :
        series[i].y = NaN /\ series[i - 1].y = One =>
            IF IsDef(series[i].x)
            THEN series[i - 1].x = Def(Val(series[i].x) - 1)
            ELSE FALSE

\* C21: for a time-ascending transition list, every filled region of each
\* overlay series is closed by a step: a gap point that follows a y = 1 point
\* has, immediately before it, a y = 1 point exactly one instant (1 ms)
\* earlier, also when a transition to Insufficient lies between the Alarm and
\* the following OK or the window end.
C21_FillClosedByStep ==
    Returned /\ HasStates /\ Ascending(States) =>
        ClosedByStep(alarmStateData) /\ ClosedByStep(alarmBeginStateData)

RequestOrder == <<"describeAlarms", "describeAlarmHistory", "getMetricStatistics">>
RequestOps == [i \in 1 .. Len(requests) |-> requests[i].op]
AllItemsFolded ==
    /\ awsPc = "map"
    /\ IF IsDef(historyLen) THEN Len(historyItems) = Val(historyLen) ELSE TRUE

\* startTime after the history items from the i-th on, starting from start
RECURSIVE FoldStartTime(_, _)
FoldStartTime(start, i) ==
    IF i > Len(historyItems)
    THEN start
    ELSE FoldStartTime(ExtendStartTime(start, Val(endTime), ParseHistoryData(historyItems[i]),
                                       PeriodOf(TheAlarm)),
                       i + 1)

\* C22: the requests of one call are issued one at a time in the order
\* describeAlarms, describeAlarmHistory, getMetricStatistics, each in the step
\* that takes the previous response; getMetricStatistics is issued only once
\* every history item is folded into startTime, carries that startTime, and
\* the options returned carry the same startTime.
C22_RequestsInSequence ==
    /\ [](/\ Len(requests) <= Len(RequestOrder)
          /\ RequestOps = SubSeq(RequestOrder, 1, Len(requests)))
    /\ [][IF requests' # requests
          THEN /\ requests = SubSeq(requests', 1, Len(requests))
               /\ Len(requests') = Len(requests) + 1
               /\ awsPc = CASE Len(requests) = 0 -> "start"
                            [] Len(requests) = 1 -> "awaitAlarms"
                            [] OTHER -> "map"
               /\ IF Len(requests) = 2
                  THEN /\ AllItemsFolded
                       /\ requests'[3].StartTime = FoldStartTime(Val(defaultStartTime), 1)
                       /\ requests'[3].StartTime = Val(startTime)
                  ELSE TRUE
          ELSE TRUE]_vars
    /\ [](IF awsPc = "done"
          THEN Val(awsResult).startTime = Def(requests[3].StartTime)
          ELSE TRUE)

C22_Witness ==
    /\ awsPc = "done"
    /\ Len(historyItems) = MaxHistory
    /\ Len(requests) = 3
    /\ requests[3].StartTime < requests[2].StartDate
    /\ Val(awsResult).startTime = Def(requests[3].StartTime)

\* startTime as the map callback finds it on reaching the i-th history item
RECURSIVE StartTimeBefore(_)
StartTimeBefore(i) ==
    IF i = 1
    THEN Val(defaultStartTime)
    ELSE ExtendStartTime(StartTimeBefore(i - 1), Val(endTime),
                         ParseHistoryData(historyItems[i - 1]), PeriodOf(TheAlarm))

\* the i-th item moved startTime back to the onset of its prior Alarm state,
\* and that onset is the startTime returned
ExtendedToPriorAlarmAt(i) ==
    LET data == ParseHistoryData(historyItems[i])
    IN  IF IsDef(OldStateStartDate(data))
        THEN /\ OldStateValue(data) = "Alarm"
             /\ Val(OldStateStartDate(data)) < StartTimeBefore(i)
             /\ ExtendStartTime(StartTimeBefore(i), Val(endTime), data, PeriodOf(TheAlarm))
                   = Val(OldStateStartDate(data))
             /\ options.startTime = OldStateStartDate(data)
        ELSE FALSE

FilledFromStartTo(series, t) ==
    /\ Len(series) >= 1
    /\ series[1] = Point(WindowStart, One)
    /\ \A k \in 1 .. Len(series) : Val(series[k].x) < t => series[k].y = One

\* C23: when the options of getAWSCloudWatchAlarmGraphOptions are charted and
\* startTime was moved back to the onset of a transition's prior Alarm state,
\* both overlay series have y = 1 at the window start and stay at 1 up to
\* that transition's time.
C23_ExtensionShown ==
    Returned /\ awsPc = "done" =>
        \A i \in 1 .. Len(historyItems) :
            ExtendedToPriorAlarmAt(i) =>
                /\ FilledFromStartTo(alarmStateData, Val(historyItems[i].Timestamp))
                /\ FilledFromStartTo(alarmBeginStateData, Val(historyItems[i].Timestamp))

\* the two points are those a transition with a beginTime emits: at its time
\* and at its beginTime, or one instant before each
EmittedWithBeginTime(notification, actual) ==
    \E j \in 1 .. Len(States) :
        /\ IsDef(States[j].beginTime)
        /\ \E d \in {0, 1} :
              /\ notification.x = Def(States[j].time - d)
              /\ actual.x = Def(Val(States[j].beginTime) - d)

\* C24: the Notification series and the Actual series have the same length
\* and the same y at every index; where their x differ, the two points are
\* those emitted for a transition that carries a beginTime.
C24_SeriesAligned ==
    Returned =>
        /\ Len(alarmStateData) = Len(alarmBeginStateData)
        /\ \A i \in 1 .. Len(alarmStateData) :
              /\ alarmStateData[i].y = alarmBeginStateData[i].y
              /\ alarmStateData[i].x # alarmBeginStateData[i].x =>
                    EmittedWithBeginTime(alarmStateData[i], alarmBeginStateData[i])

C24_Witness ==
    /\ Returned
    /\ HasStates
    /\ Len(States) = MaxStates
    /\ Len(alarmStateData) >= 4
    /\ \E i \in 1 .. Len(alarmStateData) :
          /\ alarmStateData[i].y = One
          /\ alarmStateData[i].x # alarmBeginStateData[i].x
    /\ \E i \in 2 .. Len(alarmStateData) - 1 :
          alarmStateData[i].x = alarmBeginStateData[i].x
====
